---- MODULE Spec2Model ----
(***************************************************************************)
(* The execution graph of the tap-agentic backend (src/backend/agent):     *)
(* the OverallState with its add_messages reducer, the chat node, the      *)
(* ToolNode fan-out/fan-in, the routing function and the edges wired by    *)
(* build_graph.                                                            *)
(***************************************************************************)
EXTENDS Integers, Sequences, FiniteSets, TLC

\* ------------------------------------------------------------------ bounds
\* Longest canonical history explored.
MaxMsgs == 7
\* Most tool calls one assistant message carries.
MaxCalls == 2

\* Longest history handed to the trimmer on its own.
MaxHist == 4
\* Largest token budget handed to the trimmer on its own.
MaxBudget == 5
\* Requests served concurrently by the one ChatNode instance.
MaxSessions == 2
\* Conversations (thread_ids) the checkpointer holds.
MaxThreads == 2
\* Requests the endpoint serves at once.
MaxRequests == 2
\* Route-matrix elements in one response, and the largest distance in meters.
MaxElems == 3
MaxDistance == 2

\* --------------------------------------------------------------- constants
END == "__end__"
START == "__start__"
None == "None"
NoId == 0

\* The distance_meters of an element that carries no distance (None).
NoDistance == -1

\* ChatNode.__init__ default for max_history_tokens.
max_history_tokens == 1048576

\* The supersteps one invocation may run: build_graph compiles the graph and
\* the server invokes it without a recursion_limit, so the library's default
\* applies.
recursion_limit == 25

\* Names of the statically registered tools (get_tools); "search" stands for
\* the five backend tools, which the graph treats alike.
backend_tools == {"search"}
\* The stub signal tool of tools/workflow.py.
start_shopping_workflow == "start_shopping_workflow"
\* Descriptor names a caller may supply in state["copilotkit"]["actions"].
FrontendNames == {"frontend_x"}
\* Every name the opaque model may put in a tool call.
ToolNames == backend_tools \cup FrontendNames \cup {start_shopping_workflow}

VARIABLES
    messages,     \* OverallState.messages: the canonical, checkpointed history
    copilotkit,   \* OverallState.copilotkit: [actions |-> caller-supplied names]
    active,       \* nodes scheduled for the next superstep; {} = invocation over
    last_node,    \* the node (or START) that ran last
    decision,     \* what the routing function returned after the last chat step
    view,         \* the trimmed messages of the last model invocation
    running,      \* ToolNode: TRUE between fan-out and join
    inflight,     \* ToolNode: indices of the calls still executing
    completed,    \* ToolNode: <<index, status, outcome>> in completion order
    dispatched,   \* the assistant message the ToolNode last ran on (or None)
    budget,       \* ChatNode's max_history_tokens, the trimmer's budget
    steps,        \* supersteps the current invocation has run
    error,        \* the error the current invocation ended with (or None)
    model_with_tools, \* ChatNode.model_with_tools: the names bound to the model
    sessions,     \* concurrent requests served by the one ChatNode instance
    prompt,       \* the prompt value of the last model invocation
    checkpointer, \* MemorySaver: the saved messages of every thread_id
    requests,     \* the endpoint's requests: [pc, thread_id, messages]
    elements,     \* the route-matrix elements streamed to the distances tool
    results       \* what get_accurate_supermarket_distances returned

vars == <<messages, copilotkit, active, last_node, decision, view,
          running, inflight, completed, dispatched,
          budget, steps, error, model_with_tools, sessions,
          prompt, checkpointer, requests, elements, results>>

\* The state outside one invocation of the graph: the server's requests and
\* checkpoints, and the distances tool.
ServerAndTools == <<checkpointer, requests, elements, results>>

\* ----------------------------------------------------------------- helpers
Last(s) == s[Len(s)]

IsPrefix(s, t) == Len(s) <= Len(t) /\ SubSeq(t, 1, Len(s)) = s

RECURSIVE Reverse(_)
Reverse(s) == IF s = <<>> THEN <<>> ELSE Append(Reverse(Tail(s)), Head(s))

SeqsUpTo(S, n) == UNION {[1..k -> S] : k \in 0..n}

Max(S) == CHOOSE x \in S : \A y \in S : y <= x

\* ---------------------------------------------------------------- messages
HumanMessage == [id |-> NoId, type |-> "human", tool_calls |-> <<>>,
                 tool_call_id |-> NoId, status |-> None]

\* An assistant message whose calls carry the given names; the call ids are
\* fresh (base + position).
AIMessage(names, base) ==
    [id |-> NoId, type |-> "ai",
     tool_calls |-> [i \in 1..Len(names) |-> [id |-> base + i, name |-> names[i]]],
     tool_call_id |-> NoId, status |-> None]

ToolMessage(call_id, st) == [id |-> NoId, type |-> "tool", tool_calls |-> <<>>,
                             tool_call_id |-> call_id, status |-> st]

CallIds(msgs) == UNION {{msgs[i].tool_calls[j].id : j \in 1..Len(msgs[i].tool_calls)}
                        : i \in 1..Len(msgs)}

FreshCallBase(msgs) == Max(CallIds(msgs) \cup {0})

\* ----------------------------------------------------------------- reducer
\* A reducer that appends every update without merging by id (operator.add).
add_messages_append(left, right) ==
    left \o [i \in 1..Len(right) |->
                IF right[i].id = NoId THEN [right[i] EXCEPT !.id = Len(left) + i]
                ELSE right[i]]

\* A state key without the reducer: the update overwrites the list.
add_messages_overwrite(left, right) ==
    [i \in 1..Len(right) |->
        IF right[i].id = NoId THEN [right[i] EXCEPT !.id = i] ELSE right[i]]

\* add_messages (the reducer annotated on OverallState.messages): a message
\* without an id gets a fresh one; a message whose id is already in the list
\* replaces that entry in place; any other message is appended.
RECURSIVE add_messages(_, _)
add_messages(left, right) ==
    IF right = <<>> THEN left
    ELSE LET ids == {left[i].id : i \in 1..Len(left)}
             m0 == Head(right)
             m == IF m0.id = NoId THEN [m0 EXCEPT !.id = Max(ids \cup {0}) + 1] ELSE m0
         IN IF \E i \in 1..Len(left) : left[i].id = m.id
            THEN LET i == CHOOSE j \in 1..Len(left) : left[j].id = m.id
                 IN add_messages([left EXCEPT ![i] = m], Tail(right))
            ELSE add_messages(Append(left, m), Tail(right))

\* ------------------------------------------------------------------ trimmer
\* token_counter=model: the cost of a list of messages (one unit per message).
RECURSIVE token_counter(_)
token_counter(msgs) == IF msgs = <<>> THEN 0 ELSE 1 + token_counter(Tail(msgs))

\* Roll idx back until the message before it has one of the given types.
RECURSIVE RollBack(_, _, _)
RollBack(msgs, idx, types) ==
    IF idx > 0 /\ msgs[idx].type \notin types
    THEN RollBack(msgs, idx - 1, types) ELSE idx

\* A variant that keeps a message only while the cost stays below the budget.
first_max_tokens_strict(msgs, max_tokens, end_on) ==
    LET fits == {k \in 0..Len(msgs) :
                    k = 0 \/ token_counter(SubSeq(msgs, 1, k)) < max_tokens}
        idx == Max(fits)
    IN SubSeq(msgs, 1, RollBack(msgs, idx, end_on))

\* A variant that also keeps the message with which the budget is exceeded.
first_max_tokens_over(msgs, max_tokens, end_on) ==
    LET fits == {k \in 0..Len(msgs) :
                    k = 0 \/ token_counter(SubSeq(msgs, 1, k - 1)) <= max_tokens}
        idx == Max(fits)
    IN SubSeq(msgs, 1, RollBack(msgs, idx, end_on))

\* The longest prefix of msgs within max_tokens, then cut back to end on one
\* of the types end_on.
first_max_tokens(msgs, max_tokens, end_on) ==
    LET fits == {k \in 0..Len(msgs) : token_counter(SubSeq(msgs, 1, k)) <= max_tokens}
        idx == Max(fits)
    IN SubSeq(msgs, 1, RollBack(msgs, idx, end_on))

\* The trimmer configured without end_on (as in agent/chat_node.py).
trimmer_no_end_on(msgs, max_tokens) ==
    IF msgs = <<>> THEN <<>>
    ELSE LET ended == msgs
             has_system == ended # <<>> /\ ended[1].type = "system"
             rest == IF has_system THEN Tail(ended) ELSE ended
             remaining == IF has_system
                          THEN (IF max_tokens - token_counter(<<ended[1]>>) > 0
                                THEN max_tokens - token_counter(<<ended[1]>>) ELSE 0)
                          ELSE max_tokens
             kept == Reverse(first_max_tokens(Reverse(rest), remaining, {"human"}))
         IN IF has_system THEN <<ended[1]>> \o kept ELSE kept

\* The trimmer configured without start_on.
trimmer_no_start_on(msgs, max_tokens) ==
    IF msgs = <<>> THEN <<>>
    ELSE LET ended == SubSeq(msgs, 1, RollBack(msgs, Len(msgs), {"human", "tool"}))
             has_system == ended # <<>> /\ ended[1].type = "system"
             rest == IF has_system THEN Tail(ended) ELSE ended
             remaining == IF has_system
                          THEN (IF max_tokens - token_counter(<<ended[1]>>) > 0
                                THEN max_tokens - token_counter(<<ended[1]>>) ELSE 0)
                          ELSE max_tokens
             kept == Reverse(first_max_tokens(Reverse(rest), remaining,
                                              {"system", "human", "ai", "tool"}))
         IN IF has_system THEN <<ended[1]>> \o kept ELSE kept

\* The trimmer configured without include_system.
trimmer_no_include_system(msgs, max_tokens) ==
    IF msgs = <<>> THEN <<>>
    ELSE LET ended == SubSeq(msgs, 1, RollBack(msgs, Len(msgs), {"human", "tool"}))
         IN Reverse(first_max_tokens(Reverse(ended), max_tokens, {"human"}))

\* trim_messages(strategy="last", include_system=True, allow_partial=False,
\* start_on="human", end_on=("human", "tool")) as configured in ChatNode.
trimmer(msgs, max_tokens) ==
    IF msgs = <<>> THEN <<>>
    ELSE LET ended == SubSeq(msgs, 1, RollBack(msgs, Len(msgs), {"human", "tool"}))
             has_system == ended # <<>> /\ ended[1].type = "system"
             rest == IF has_system THEN Tail(ended) ELSE ended
             remaining == IF has_system
                          THEN (IF max_tokens - token_counter(<<ended[1]>>) > 0
                                THEN max_tokens - token_counter(<<ended[1]>>) ELSE 0)
                          ELSE max_tokens
             kept == Reverse(first_max_tokens(Reverse(rest), remaining, {"human"}))
         IN IF has_system THEN <<ended[1]>> \o kept ELSE kept

\* ------------------------------------------------------------------- prompt
\* The ("system", assistant_instructions) entry of the prompt template.
assistant_instructions == [id |-> NoId, type |-> "system", tool_calls |-> <<>>,
                           tool_call_id |-> NoId, status |-> None]

\* A template that leaves the instructions out.
assistant_instructions_template_bare(msgs) == msgs

\* assistant_instructions_template: the system instructions followed by the
\* messages placeholder.
assistant_instructions_template(msgs) == <<assistant_instructions>> \o msgs

\* ------------------------------------------------------------------ routing
\* A variant that looks only at the first tool call.
custom_tools_condition_first_call(state) ==
    LET msgs == state.messages
        tool_calls == IF msgs # <<>> THEN Last(msgs).tool_calls ELSE <<>>
    IN IF tool_calls # <<>>
       THEN IF tool_calls[1].name \in state.copilotkit.actions THEN END ELSE "tools"
       ELSE END

\* A variant that tests tool_calls against None instead of for emptiness.
custom_tools_condition_not_none(state) ==
    LET msgs == state.messages
        tool_calls == IF msgs # <<>> THEN Last(msgs).tool_calls ELSE <<>>
    IN IF msgs # <<>>
       THEN IF \E i \in 1..Len(tool_calls) :
                  tool_calls[i].name \in state.copilotkit.actions
            THEN END ELSE "tools"
       ELSE END

\* A variant that inspects every message of the history, not the last one.
custom_tools_condition_any_message(state) ==
    LET msgs == state.messages
        calls == UNION {{msgs[k].tool_calls[j].name : j \in 1..Len(msgs[k].tool_calls)}
                        : k \in 1..Len(msgs)}
    IN IF msgs # <<>> /\ Last(msgs).tool_calls # <<>>
       THEN IF calls \cap state.copilotkit.actions # {} THEN END ELSE "tools"
       ELSE END

\* custom_tools_condition: END when the last message has no tool calls or when
\* any of its calls names a caller-supplied action, "tools" otherwise.  Every
\* message in the state is a message object (add_messages coerces dicts), so
\* tool_calls is the attribute of routing.py:27; None and [] are both falsy.
custom_tools_condition(state) ==
    LET msgs == state.messages
        tool_calls == IF msgs # <<>> THEN Last(msgs).tool_calls ELSE <<>>
    IN IF tool_calls # <<>>
       THEN LET action_names == state.copilotkit.actions
            IN IF \E i \in 1..Len(tool_calls) : tool_calls[i].name \in action_names
               THEN END
               ELSE "tools"
       ELSE END

\* A variant in which the workflow trigger is tested before the caller's names.
workflow_tools_condition_handoff_first(state) ==
    LET tool_calls == IF state.messages # <<>> THEN Last(state.messages).tool_calls ELSE <<>>
    IN IF \E i \in 1..Len(tool_calls) : tool_calls[i].name = start_shopping_workflow
       THEN "workflow"
       ELSE custom_tools_condition(state)

\* A variant that never hands off.
workflow_tools_condition_no_handoff(state) == custom_tools_condition(state)

\* workflow_tools_condition, the function build_graph wires after "chat": the
\* rules of custom_tools_condition, with a call to the workflow-trigger tool
\* diverting to "workflow" where custom_tools_condition answers "tools".
workflow_tools_condition(state) ==
    LET route == custom_tools_condition(state)
        tool_calls == IF state.messages # <<>> THEN Last(state.messages).tool_calls ELSE <<>>
    IN IF route = "tools"
          /\ \E i \in 1..Len(tool_calls) : tool_calls[i].name = start_shopping_workflow
       THEN "workflow"
       ELSE route

\* -------------------------------------------------------------------- graph
\* Edges in a variant where the static chat -> END edge ends the invocation
\* whatever the conditional edge chose.
Successors_static_end_wins(node, state) ==
    CASE node = START -> {"chat"}
      [] node = "chat" -> {}
      [] node = "tools" -> {"chat"} \ {END}
      [] node = "workflow" -> {END} \ {END}

\* A variant whose "tools" node is wired to END.
Successors_tools_to_end(node, state) ==
    CASE node = START -> {"chat"}
      [] node = "chat" -> {workflow_tools_condition(state), END} \ {END}
      [] node = "tools" -> {END} \ {END}
      [] node = "workflow" -> {END} \ {END}

\* The nodes build_graph's edges schedule after `node`: the static edges and,
\* for "chat", the conditional edge.  An edge to END schedules nothing.
Successors(node, state) ==
    CASE node = START -> {"chat"}
      [] node = "chat" -> {workflow_tools_condition(state), END} \ {END}
      [] node = "tools" -> {"chat"} \ {END}
      [] node = "workflow" -> {END} \ {END}

State(msgs) == [messages |-> msgs, copilotkit |-> copilotkit]

\* The caller stopped the last invocation to run one of its own tools.
AwaitingCaller ==
    /\ active = {}
    /\ last_node = "chat"
    /\ messages # <<>>
    /\ \E i \in 1..Len(Last(messages).tool_calls) :
           Last(messages).tool_calls[i].name \in copilotkit.actions

\* The caller's results for the calls of `msg` that name its own descriptors.
RECURSIVE CallerResults(_, _)
CallerResults(calls, names) ==
    IF calls = <<>> THEN <<>>
    ELSE (IF Head(calls).name \in names
          THEN <<ToolMessage(Head(calls).id, "success")>> ELSE <<>>)
         \o CallerResults(Tail(calls), names)

\* ToolNode's output: one tool message per call, in a variant that keeps the
\* order in which the calls completed.
ToolNodeOutputs_completion_order(calls, done) ==
    [k \in 1..Len(done) |-> ToolMessage(calls[done[k][1]].id, done[k][2])]

\* ToolNode's output in a variant that returns as soon as one call is done.
ToolNodeOutputs_first_completed(calls, done) ==
    IF done = <<>> THEN <<>>
    ELSE <<ToolMessage(calls[done[1][1]].id, done[1][2])>>

\* ToolNode's output: one tool message per call, in the order of the calls
\* (asyncio.gather returns results in the order of its awaitables).
ToolNodeOutputs(calls, done) ==
    [i \in 1..Len(calls) |->
        LET k == CHOOSE k \in 1..Len(done) : done[k][1] = i
        IN ToolMessage(calls[i].id, done[k][2])]

\* What one tool call can do: return, raise, or be refused for arguments that
\* violate the tool's input schema.
Outcomes == {"success", "raise", "invalid_args"}

\* ToolNode with errors re-raised instead of handled.
handle_tool_errors_reraise(name, outcome) ==
    IF name \notin backend_tools THEN "error"
    ELSE IF outcome = "success" THEN "success"
    ELSE "raised"

\* ToolNode(tools) is built with its default handle_tool_errors: a name that
\* is not registered, an exception of the tool and a schema violation each
\* become the content of a tool message with status "error".
handle_tool_errors(name, outcome) ==
    IF name \notin backend_tools THEN "error"
    ELSE IF outcome = "success" THEN "success"
    ELSE "error"

\* A binding that adds the tools to those it already has.
bind_tools_accumulate(bound, tools) == bound \cup tools

\* bound.bind_tools(tools): a binding of the model to exactly these tools;
\* called on a binding (self.model_with_tools) it rebinds the underlying
\* model, replacing the tools that were bound.
bind_tools(bound, tools) == tools

\* The requests the one ChatNode instance can be serving at once.
SessionIds == 1..MaxSessions

\* No request is being served.
NoSessions == [r \in SessionIds |-> [pc |-> "idle", actions |-> {}, tool_set |-> {}]]

\* The thread_ids (sessions) of the checkpointer and the requests the
\* endpoint can be serving at once.
ThreadIds == 1..MaxThreads
RequestIds == 1..MaxRequests

\* MemorySaver() as build_graph creates it: no thread has a checkpoint.
NoCheckpoints == [t \in ThreadIds |-> <<>>]

\* No request has arrived.
NoRequests == [q \in RequestIds |-> [pc |-> "idle", thread_id |-> 1, messages |-> <<>>]]

\* The messages a response with these calls still brings into the history
\* before the conversation can rest: the results of its calls and the answer
\* that follows them (keeps the explored histories within MaxMsgs).
Room(names) ==
    LET owned == {i \in 1..Len(names) : names[i] \in copilotkit.actions}
        handoff == \E i \in 1..Len(names) : names[i] = start_shopping_workflow
    IN IF names = <<>> THEN 0
       ELSE IF owned # {} THEN Cardinality(owned) + 1
       ELSE IF handoff THEN 0
       ELSE Len(names) + 1

\* --------------------------------------------------------------------- Init
Init ==
    /\ messages = <<>>
    /\ copilotkit = [actions |-> {}]
    /\ active = {}
    /\ last_node = None
    /\ decision = None
    /\ view = <<>>
    /\ running = FALSE
    /\ inflight = {}
    /\ completed = <<>>
    /\ dispatched = <<>>
    /\ budget = max_history_tokens
    /\ steps = 0
    /\ error = None
    /\ model_with_tools = bind_tools({}, backend_tools)
    /\ sessions = NoSessions
    /\ prompt = <<>>
    /\ checkpointer = NoCheckpoints
    /\ requests = NoRequests
    /\ elements = <<>>
    /\ results = <<>>

\* ------------------------------------------------------------------ actions
\* A request with a new human message and this request's caller descriptors.
HumanTurn(acts) ==
    /\ active = {}
    /\ ~AwaitingCaller
    /\ Len(messages) + 2 <= MaxMsgs
    /\ messages' = add_messages(messages, <<HumanMessage>>)
    /\ copilotkit' = [actions |-> acts]
    /\ active' = Successors(START, State(messages'))
    /\ last_node' = START
    /\ decision' = None
    /\ steps' = 0
    /\ error' = None
    /\ UNCHANGED <<view, running, inflight, completed, dispatched,
                   budget, model_with_tools, sessions, prompt,
                   ServerAndTools>>

\* The caller ran its own tools and resumes the conversation with their results.
ResumeTurn(acts) ==
    /\ AwaitingCaller
    /\ messages' = add_messages(messages,
                        CallerResults(Last(messages).tool_calls, copilotkit.actions))
    /\ copilotkit' = [actions |-> acts]
    /\ active' = Successors(START, State(messages'))
    /\ last_node' = START
    /\ decision' = None
    /\ steps' = 0
    /\ error' = None
    /\ UNCHANGED <<view, running, inflight, completed, dispatched,
                   budget, model_with_tools, sessions, prompt,
                   ServerAndTools>>

\* ChatNode.__call__: trim, invoke the model, return {"messages": [response]};
\* the conditional edge is evaluated on the updated state.
ChatNode(names) ==
    /\ "chat" \in active
    /\ steps < recursion_limit
    /\ LET trimmed_messages == trimmer(messages, budget)
           frontend_actions == copilotkit.actions
           tools == backend_tools \cup frontend_actions
           response == AIMessage(names, FreshCallBase(messages))
           update == add_messages(messages, <<response>>)
           after == [messages |-> update, copilotkit |-> copilotkit]
       IN /\ view' = trimmed_messages
          /\ prompt' = assistant_instructions_template(trimmed_messages)
          /\ model_with_tools' = bind_tools(model_with_tools, tools)
          /\ messages' = update
          /\ decision' = workflow_tools_condition(after)
          /\ active' = Successors("chat", after)
    /\ last_node' = "chat"
    /\ steps' = steps + 1
    /\ UNCHANGED <<copilotkit, running, inflight, completed, dispatched,
                   budget, error, sessions, ServerAndTools>>

\* ToolNode: fan out every call of the last assistant message.
ToolNodeStart ==
    /\ "tools" \in active
    /\ steps < recursion_limit
    /\ ~running
    /\ running' = TRUE
    /\ dispatched' = <<Last(messages)>>
    /\ inflight' = 1..Len(Last(messages).tool_calls)
    /\ completed' = <<>>
    /\ UNCHANGED <<messages, copilotkit, active, last_node, decision, view,
                   budget, steps, error, model_with_tools, sessions, prompt,
                   ServerAndTools>>

\* One call finishes: the tool returns, raises, or its arguments fail the
\* input schema; ToolNode turns the outcome into the status of a tool message.
ToolCallCompletes(i, outcome) ==
    /\ running
    /\ i \in inflight
    /\ inflight' = inflight \ {i}
    /\ completed' = Append(completed,
            <<i, handle_tool_errors(dispatched[1].tool_calls[i].name, outcome), outcome>>)
    /\ UNCHANGED <<messages, copilotkit, active, last_node, decision, view,
                   running, dispatched,
                   budget, steps, error, model_with_tools, sessions, prompt,
                   ServerAndTools>>

\* ToolNode: every call has finished; return the tool messages.
\* An exception that ToolNode does not handle fails the node and with it the
\* invocation: no delta is written.
ToolNodeJoin ==
    /\ running
    /\ inflight = {}
    /\ running' = FALSE
    /\ last_node' = "tools"
    /\ steps' = steps + 1
    /\ IF \E k \in 1..Len(completed) : completed[k][2] = "raised"
       THEN /\ messages' = messages
            /\ active' = {}
            /\ error' = "ToolException"
       ELSE /\ messages' = add_messages(messages,
                               ToolNodeOutputs(dispatched[1].tool_calls, completed))
            /\ active' = Successors("tools", State(messages'))
            /\ error' = error
    /\ UNCHANGED <<copilotkit, decision, view, inflight, completed, dispatched,
                   budget, model_with_tools, sessions, prompt,
                   ServerAndTools>>

\* The compiled workflow subgraph: shopping_workflow_test returns the state
\* it was given, which the reducer merges back.
shopping_workflow_test ==
    /\ "workflow" \in active
    /\ steps < recursion_limit
    /\ messages' = add_messages(messages, messages)
    /\ active' = Successors("workflow", State(messages'))
    /\ last_node' = "workflow"
    /\ steps' = steps + 1
    /\ UNCHANGED <<copilotkit, decision, view, running, inflight, completed, dispatched,
                   budget, error, model_with_tools, sessions, prompt,
                   ServerAndTools>>

Next ==
    \/ \E acts \in SUBSET FrontendNames : HumanTurn(acts)
    \/ \E acts \in SUBSET FrontendNames : ResumeTurn(acts)
    \/ \E names \in SeqsUpTo(ToolNames, MaxCalls) :
            Len(messages) + 1 + Room(names) <= MaxMsgs /\ ChatNode(names)
    \/ ToolNodeStart
    \/ \E i \in 1..MaxCalls, outcome \in Outcomes : ToolCallCompletes(i, outcome)
    \/ ToolNodeJoin
    \/ shopping_workflow_test

Spec == Init /\ [][Next]_vars

\* ------------------------------------------------- one invocation that loops
\* The invocation has work scheduled but has used up its supersteps: the
\* runner raises GraphRecursionError; the state stays as the last completed
\* step left it.
GraphRecursionError ==
    /\ active # {}
    /\ ~running
    /\ steps >= recursion_limit
    /\ active' = {}
    /\ error' = "GraphRecursionError"
    /\ UNCHANGED <<messages, copilotkit, last_node, decision, view, running,
                   inflight, completed, dispatched, budget, steps,
                   model_with_tools, sessions, prompt,
                   ServerAndTools>>

\* A model that asks for a backend tool on every reasoning step.
ModelStub == <<"search">>

\* A single external invocation, driven by ModelStub.
NextLoop ==
    \/ messages = <<>> /\ HumanTurn({})
    \/ ChatNode(ModelStub)
    \/ ToolNodeStart
    \/ \E outcome \in Outcomes : ToolCallCompletes(1, outcome)
    \/ ToolNodeJoin
    \/ GraphRecursionError

SpecLoop == Init /\ [][NextLoop]_vars

\* =================================================================== claims
HasCalls(msg) == msg.type = "ai" /\ msg.tool_calls # <<>>

CallNames(msg) == {msg.tool_calls[i].name : i \in 1..Len(msg.tool_calls)}

\* Some call of msg names a descriptor the caller supplied with this request.
CallerOwned(msg) == CallNames(msg) \cap copilotkit.actions # {}

HasTrigger(msg) == start_shopping_workflow \in CallNames(msg)

NumOfType(msgs, t) == Cardinality({i \in 1..Len(msgs) : msgs[i].type = t})

\* C1: the canonical messages only grow: in every step of every node and of
\* every new turn, the old value is a prefix of the new one.
C1_AppendOnly == [][IsPrefix(messages, messages')]_vars

C1_Witness ==
    /\ last_node = "workflow"
    /\ NumOfType(messages, "human") >= 2
    /\ NumOfType(messages, "tool") >= 1

\* C2: after a reasoning step whose message has a call naming a
\* caller-supplied descriptor, the routing decision is END and the tools node
\* is not scheduled, whatever the other calls name.
C2_CallerOwnedWins ==
    (last_node = "chat" /\ CallerOwned(Last(messages)))
        => /\ custom_tools_condition(State(messages)) = END
           /\ decision = END
           /\ "tools" \notin active

C2_Witness ==
    /\ last_node = "chat"
    /\ decision = END
    /\ Len(Last(messages).tool_calls) = 2
    /\ Last(messages).tool_calls[1].name = "search"
    /\ Last(messages).tool_calls[2].name = "frontend_x"
    /\ "frontend_x" \in copilotkit.actions

\* C3: an assistant message without tool calls ends the invocation: the
\* decision is END, nothing is scheduled, and the ToolNode does not run on it.
C3_NoCallsIsDone ==
    (messages # <<>> /\ Last(messages).type = "ai" /\ Last(messages).tool_calls = <<>>)
        => /\ last_node = "chat"
           /\ decision = END
           /\ active = {}
           /\ ~running
           /\ dispatched # <<Last(messages)>>

C3_Witness ==
    /\ last_node = "chat"
    /\ Last(messages).tool_calls = <<>>
    /\ active = {}

\* C4: a message with calls, none caller-owned and none the workflow trigger,
\* is routed to "tools"; and when the ToolNode returns, the node scheduled
\* next is "chat" (never the end of the invocation).
C4_DispatchThenChat ==
    /\ []((last_node = "chat" /\ HasCalls(Last(messages))
            /\ ~CallerOwned(Last(messages)) /\ ~HasTrigger(Last(messages)))
          => (decision = "tools" /\ active = {"tools"}))
    /\ [][(running /\ ~running') => (last_node' = "tools" /\ active' = {"chat"})]_vars

C4_Witness ==
    /\ last_node = "tools"
    /\ active = {"chat"}
    /\ HasCalls(dispatched[1])
    /\ Last(messages).type = "tool"

\* C5: a message calling the workflow trigger, with no caller-owned call, is
\* handed off: the workflow node is scheduled and runs, the ToolNode does not.
C5_HandOff ==
    (messages # <<>> /\ Last(messages).type = "ai" /\ HasTrigger(Last(messages))
        /\ ~CallerOwned(Last(messages)))
        => /\ decision = "workflow"
           /\ last_node = "chat" => active = {"workflow"}
           /\ last_node \in {"chat", "workflow"}
           /\ "tools" \notin active
           /\ ~running
           /\ dispatched # <<Last(messages)>>

C5_Witness ==
    /\ last_node = "workflow"
    /\ CallNames(Last(messages)) = {start_shopping_workflow, "search"}

\* C6: a message mixing a caller-owned call with the workflow trigger ends
\* the turn: the decision is END and the workflow node is not entered.
C6_CallerBeatsHandOff ==
    (messages # <<>> /\ Last(messages).type = "ai" /\ HasTrigger(Last(messages))
        /\ CallerOwned(Last(messages)))
        => /\ workflow_tools_condition(State(messages)) = END
           /\ decision = END
           /\ last_node = "chat"
           /\ active = {}

C6_Witness ==
    /\ last_node = "chat"
    /\ decision = END
    /\ Len(Last(messages).tool_calls) = 2
    /\ Last(messages).tool_calls[1].name = start_shopping_workflow
    /\ Last(messages).tool_calls[2].name \in copilotkit.actions

\* Histories that end with the same message as msgs but differ before it.
SameLast(msgs) ==
    {SubSeq(msgs, k, Len(msgs)) : k \in 1..Len(msgs)}
    \cup {Reverse(SubSeq(msgs, 1, Len(msgs) - 1)) \o <<Last(msgs)>>}
    \cup {<<[AIMessage(<<n>>, 0) EXCEPT !.id = 99], Last(msgs)>> : n \in ToolNames}

\* C7: the routing decision depends only on the last message's tool calls and
\* the caller's tool names: every state with the same last message and the
\* same names, whatever its earlier messages, gets the same decision.
C7_RoutingDependsOnLastOnly ==
    messages # <<>> =>
        \A other \in SameLast(messages) :
            /\ custom_tools_condition(State(other)) = custom_tools_condition(State(messages))
            /\ workflow_tools_condition(State(other)) = workflow_tools_condition(State(messages))

C7_Witness ==
    /\ last_node = "chat"
    /\ decision = "tools"
    /\ \E i \in 1..(Len(messages) - 1) : CallerOwned(messages[i])

\* C8: the ToolNode never runs on a message any of whose calls names a
\* descriptor the caller supplied with the current request.
C8_NoCallerOwnedDispatch ==
    /\ "tools" \in active => ~CallerOwned(Last(messages))
    /\ (running \/ last_node = "tools") => ~CallerOwned(dispatched[1])

C8_Witness ==
    /\ running
    /\ copilotkit.actions # {}
    /\ completed # <<>>

\* The call ids of msg that have a tool message in msgs.
Answered(msgs, msg) ==
    {msg.tool_calls[j].id : j \in 1..Len(msg.tool_calls)}
    \cap {msgs[i].tool_call_id : i \in {k \in 1..Len(msgs) : msgs[k].type = "tool"}}

PartiallyAnswered(msgs, msg) ==
    /\ Answered(msgs, msg) # {}
    /\ Answered(msgs, msg) # {msg.tool_calls[j].id : j \in 1..Len(msg.tool_calls)}

\* C9: the model is never invoked on a view holding an assistant message
\* whose tool calls are partially answered.
C9_NoPartiallyAnsweredView ==
    \A i \in 1..Len(view) : ~PartiallyAnswered(view, view[i])

\* C10: the tool messages the ToolNode appends are in the order of the calls
\* of the assistant message, whatever order the calls completed in.
C10_ResultsInCallOrder ==
    (last_node = "tools" /\ ~running) =>
        LET calls == dispatched[1].tool_calls
            n == Len(calls)
        IN /\ Len(messages) >= n
           /\ \A i \in 1..n :
                /\ messages[Len(messages) - n + i].type = "tool"
                /\ messages[Len(messages) - n + i].tool_call_id = calls[i].id

C10_Witness ==
    /\ last_node = "tools"
    /\ ~running
    /\ Len(completed) = 2
    /\ completed[1][1] = 2
    /\ completed[2][1] = 1

\* The tool messages of msgs that answer the call with this id.
Results(msgs, call_id) ==
    {i \in 1..Len(msgs) : msgs[i].type = "tool" /\ msgs[i].tool_call_id = call_id}

\* C11: the ToolNode writes its delta only when every call has completed:
\* while calls are in flight none of their results is in messages, and when
\* the reasoning step is scheduled again each call has exactly one tool
\* message carrying its id.
C11_JoinWaitsForAll ==
    /\ running => Answered(messages, dispatched[1]) = {}
    /\ dispatched # <<>> => ~PartiallyAnswered(messages, dispatched[1])
    /\ (last_node = "tools" /\ "chat" \in active) =>
          \A j \in 1..Len(dispatched[1].tool_calls) :
              Cardinality(Results(messages, dispatched[1].tool_calls[j].id)) = 1

C11_Witness ==
    /\ last_node = "tools"
    /\ active = {"chat"}
    /\ Len(dispatched[1].tool_calls) = 2
    /\ Cardinality(Results(messages, dispatched[1].tool_calls[2].id)) = 1

\* C12: a failing tool call (an exception, an unknown name, arguments that
\* violate the schema) does not abort the turn: it yields a tool message with
\* an error payload, the other calls yield their results, and the reasoning
\* step is scheduled next.
C12_ToolFailureIsAMessage ==
    (last_node = "tools" /\ ~running) =>
        /\ error = None
        /\ active = {"chat"}
        /\ \A k \in 1..Len(completed) :
              LET call == dispatched[1].tool_calls[completed[k][1]]
                  failed == completed[k][3] # "success" \/ call.name \notin backend_tools
              IN \E i \in Results(messages, call.id) :
                    messages[i].status = IF failed THEN "error" ELSE "success"

C12_Witness ==
    /\ last_node = "tools"
    /\ ~running
    /\ active = {"chat"}
    /\ Len(completed) = 2
    /\ completed[1][3] = "raise"
    /\ completed[2][3] = "success"
    /\ dispatched[1].tool_calls[completed[1][1]].name \in backend_tools
    /\ dispatched[1].tool_calls[completed[2][1]].name \in backend_tools

\* ------------------------------------- concurrent requests on one ChatNode
\* The graph holds one ChatNode (graph.py:75) for every session; each request
\* runs ChatNode.__call__ as a coroutine that can be suspended at its awaits.

NotSessions == <<messages, copilotkit, active, last_node, decision, view, running,
                 inflight, completed, dispatched, budget, steps, error,
                 prompt, ServerAndTools>>

\* A turn of session r reaches the chat node with this turn's descriptors.
SessionCall(r, acts) ==
    /\ sessions[r].pc = "idle"
    /\ sessions' = [sessions EXCEPT ![r] = [pc |-> "trim", actions |-> acts, tool_set |-> {}]]
    /\ UNCHANGED <<NotSessions, model_with_tools>>

\* await self.trimmer.ainvoke(...) returns.
SessionTrimmed(r) ==
    /\ sessions[r].pc = "trim"
    /\ sessions' = [sessions EXCEPT ![r].pc = "prompt"]
    /\ UNCHANGED <<NotSessions, model_with_tools>>

\* await assistant_instructions_template.ainvoke(...) returns; the coroutine
\* then rebinds self.model_with_tools and calls ainvoke on it before it is
\* suspended again: the model call gets the binding just made.
SessionInvoke(r) ==
    /\ sessions[r].pc = "prompt"
    /\ LET frontend_actions == sessions[r].actions
           tools == backend_tools \cup frontend_actions
       IN /\ model_with_tools' = bind_tools(model_with_tools, tools)
          /\ sessions' = [sessions EXCEPT ![r].pc = "invoke",
                                          ![r].tool_set = model_with_tools']
    /\ UNCHANGED NotSessions

\* await self.model_with_tools.ainvoke(prompt) returns.
SessionResponse(r) ==
    /\ sessions[r].pc = "invoke"
    /\ sessions' = [sessions EXCEPT ![r].pc = "idle"]
    /\ UNCHANGED <<NotSessions, model_with_tools>>

NextSessions ==
    \/ \E r \in SessionIds, acts \in SUBSET FrontendNames : SessionCall(r, acts)
    \/ \E r \in SessionIds : SessionTrimmed(r)
    \/ \E r \in SessionIds : SessionInvoke(r)
    \/ \E r \in SessionIds : SessionResponse(r)

SpecSessions == Init /\ [][NextSessions]_vars

\* C20: the tool set a turn's model call gets is exactly the backend tools
\* plus the descriptors the caller supplied for that turn, whatever was bound
\* by earlier turns or by other sessions' requests in between.
C20_ToolSetIsThisTurns ==
    \A r \in SessionIds :
        sessions[r].tool_set # {} =>
            sessions[r].tool_set = backend_tools \cup sessions[r].actions

C20_Witness ==
    /\ sessions[1].pc = "invoke"
    /\ sessions[1].actions = {}
    /\ sessions[2].pc = "invoke"
    /\ sessions[2].actions = {"frontend_x"}
    /\ model_with_tools = backend_tools \cup {"frontend_x"}
    /\ sessions[1].tool_set = backend_tools

\* --------------------------------------------------- the trimmer on its own
Kinds == {"system", "human", "ai", "call", "tool"}

\* A tool message directly follows the assistant message that called it, or
\* another result of the same assistant message.
WellFormed(ks) ==
    \A i \in 1..Len(ks) : ks[i] = "tool" => (i > 1 /\ ks[i - 1] \in {"call", "tool"})

\* The number of tool messages that directly follow position i.
RECURSIVE ToolRun(_, _)
ToolRun(ks, i) ==
    IF i < Len(ks) /\ ks[i + 1] = "tool" THEN 1 + ToolRun(ks, i + 1) ELSE 0

\* The position of the assistant message whose calls position i answers.
RECURSIVE Caller(_, _)
Caller(ks, i) == IF ks[i] = "call" THEN i ELSE Caller(ks, i - 1)

MkMessage(ks, i) ==
    CASE ks[i] = "call" ->
            [id |-> i, type |-> "ai",
             tool_calls |-> [j \in 1..(IF ToolRun(ks, i) = 0 THEN 1 ELSE ToolRun(ks, i)) |->
                                [id |-> 10 * i + j, name |-> "search"]],
             tool_call_id |-> NoId, status |-> None]
      [] ks[i] = "tool" ->
            [id |-> i, type |-> "tool", tool_calls |-> <<>>,
             tool_call_id |-> 10 * Caller(ks, i) + (i - Caller(ks, i)),
             status |-> "success"]
      [] OTHER ->
            [id |-> i, type |-> ks[i], tool_calls |-> <<>>,
             tool_call_id |-> NoId, status |-> None]

\* The histories the trimmer is given: every well-formed arrangement of
\* system, human, assistant and tool messages up to MaxHist.
Histories ==
    {[i \in 1..Len(ks) |-> MkMessage(ks, i)] :
        ks \in {k \in SeqsUpTo(Kinds, MaxHist) : WellFormed(k)}}

InitTrim ==
    /\ messages \in Histories
    /\ budget \in 0..MaxBudget
    /\ copilotkit = [actions |-> {}]
    /\ active = {}
    /\ last_node = None
    /\ decision = None
    /\ view = <<>>
    /\ running = FALSE
    /\ inflight = {}
    /\ completed = <<>>
    /\ dispatched = <<>>
    /\ steps = 0
    /\ error = None
    /\ model_with_tools = bind_tools({}, backend_tools)
    /\ sessions = NoSessions
    /\ prompt = <<>>
    /\ checkpointer = NoCheckpoints
    /\ requests = NoRequests
    /\ elements = <<>>
    /\ results = <<>>

\* self.trimmer.ainvoke(state["messages"]) and the prompt built from its
\* result: the first steps of ChatNode.__call__.
\* trim_messages has no failure of its own: it always returns a view.
TrimStep ==
    /\ last_node = None
    /\ view' = trimmer(messages, budget)
    /\ prompt' = assistant_instructions_template(view')
    /\ last_node' = "trimmer"
    /\ UNCHANGED <<messages, copilotkit, active, decision, running, inflight,
                   completed, dispatched, budget, steps, error,
                   model_with_tools, sessions, ServerAndTools>>

NextTrim == TrimStep

SpecTrim == InitTrim /\ [][NextTrim]_vars

Trimmed == last_node = "trimmer"

\* C14 as stated: a history within the budget is returned unchanged,
\* whatever the roles of its first and last messages.
C14_FitsUnchanged ==
    (Trimmed /\ token_counter(messages) <= budget) => view = messages

\* The history starts on a human message (after an optional leading system
\* message) and ends on a human or tool message.
StartsAndEndsOnBoundary(msgs) ==
    /\ msgs # <<>>
    /\ Last(msgs).type \in {"human", "tool"}
    /\ \/ msgs[1].type = "human"
       \/ Len(msgs) >= 2 /\ msgs[1].type = "system" /\ msgs[2].type = "human"

\* C14 amended: a history within the budget that starts on a human message
\* (after an optional leading system message) and ends on a human or tool
\* message is returned unchanged.
C14_FitsUnchangedOnBoundaries ==
    (Trimmed /\ token_counter(messages) <= budget /\ StartsAndEndsOnBoundary(messages))
        => view = messages

C14_Witness ==
    /\ Trimmed
    /\ token_counter(messages) = budget
    /\ Len(messages) = 4
    /\ messages[1].type = "system"
    /\ StartsAndEndsOnBoundary(messages)
    /\ view = messages

NonSystem(msgs) == SelectSeq(msgs, LAMBDA m : m.type # "system")

\* C16: the first non-system message of a non-empty view is a human message;
\* the view never begins with an assistant or a tool message.
C16_StartsOnHuman ==
    (Trimmed /\ view # <<>>) =>
        /\ view[1].type \in {"system", "human"}
        /\ NonSystem(view) # <<>> => NonSystem(view)[1].type = "human"

C16_Witness ==
    /\ Trimmed
    /\ view # <<>>
    /\ view[1].type = "human"
    /\ Len(view) < Len(messages)
    /\ messages[Len(messages) - Len(view)].type \in {"ai", "tool"}
    /\ Last(messages).type = "tool"

\* C17 as stated: a system message of the history, at whatever position, is
\* in the view for every budget.
C17_SystemKept ==
    Trimmed =>
        \A i \in 1..Len(messages) :
            messages[i].type = "system" => \E k \in 1..Len(view) : view[k] = messages[i]

\* C17 amended: a system message that is the first message of a history
\* holding at least one human or tool message is the first message of the
\* view for every budget.
C17_LeadingSystemKept ==
    (Trimmed /\ messages # <<>> /\ messages[1].type = "system"
        /\ \E i \in 1..Len(messages) : messages[i].type \in {"human", "tool"})
        => (view # <<>> /\ view[1] = messages[1])

C17_Witness ==
    /\ Trimmed
    /\ Len(messages) = 4
    /\ messages[1].type = "system"
    /\ budget = 1
    /\ view = <<messages[1]>>

\* A system message followed by one human + assistant + tool exchange.
SystemPlusExchange(msgs) ==
    /\ Len(msgs) = 4
    /\ msgs[1].type = "system"
    /\ msgs[2].type = "human"
    /\ HasCalls(msgs[3])
    /\ msgs[4].type = "tool"

\* C18: for a system message plus one exchange that together exceed the
\* budget the trimmer signals BudgetExceeded; it returns no empty view and no
\* view holding only part of the exchange.
C18_BudgetExceeded ==
    (Trimmed /\ SystemPlusExchange(messages) /\ token_counter(messages) > budget)
        => /\ error = "BudgetExceeded"
           /\ view = <<>>

\* s is t, or what is left of t after dropping messages from its front.
IsSuffix(s, t) ==
    Len(s) <= Len(t) /\ SubSeq(t, Len(t) - Len(s) + 1, Len(t)) = s

RetainedSystem(msgs, v) == v # <<>> /\ v[1].type = "system" /\ v[1] = msgs[1]

RECURSIVE EndOnHumanOrTool(_)
EndOnHumanOrTool(msgs) ==
    IF msgs # <<>> /\ Last(msgs).type \notin {"human", "tool"}
    THEN EndOnHumanOrTool(SubSeq(msgs, 1, Len(msgs) - 1)) ELSE msgs

C13_CeilingForcesDone ==
    (steps > 0 /\ active = {}) =>
        /\ error = "MaxStepsExceeded"
        /\ decision = END
        /\ NumOfType(messages, "tool") = recursion_limit

\* ------------------------------------------ requests on the served endpoint
NotServer == <<messages, copilotkit, active, last_node, decision, view, running,
               inflight, completed, dispatched, budget, steps, error,
               model_with_tools, sessions, prompt, elements, results>>

\* A request for thread_id t reaches the endpoint: the compiled graph is
\* invoked at once (nothing between the endpoint and the graph holds a lock
\* or a queue per thread_id); the invocation loads the thread's checkpoint,
\* applies the input message through the reducer and saves.
Request(q, t) ==
    /\ requests[q].pc = "idle"
    /\ Len(checkpointer[t]) + 2 <= MaxMsgs
    /\ LET loaded == add_messages(checkpointer[t], <<HumanMessage>>)
       IN /\ requests' = [requests EXCEPT ![q] =
                              [pc |-> "chat", thread_id |-> t, messages |-> loaded]]
          /\ checkpointer' = [checkpointer EXCEPT ![t] = loaded]
    /\ UNCHANGED NotServer

\* The request's chat step answers; the invocation saves its own channel
\* values as the thread's latest checkpoint and returns.
RequestAnswered(q) ==
    /\ requests[q].pc = "chat"
    /\ LET update == add_messages(requests[q].messages,
                                  <<AIMessage(<<>>, FreshCallBase(requests[q].messages))>>)
       IN checkpointer' = [checkpointer EXCEPT ![requests[q].thread_id] = update]
    /\ requests' = [requests EXCEPT ![q] = NoRequests[q]]
    /\ UNCHANGED NotServer

NextServer ==
    \/ \E q \in RequestIds, t \in ThreadIds : Request(q, t)
    \/ \E q \in RequestIds : RequestAnswered(q)

SpecServer == Init /\ [][NextServer]_vars

\* C21: two requests that are both in a turn never carry the same session
\* id: a session has at most one active turn at a time.
C21_OneTurnPerSession ==
    \A q1, q2 \in RequestIds :
        (q1 # q2 /\ requests[q1].pc # "idle" /\ requests[q2].pc # "idle")
            => requests[q1].thread_id # requests[q2].thread_id

\* ------------------------------------------------- a model call that fails
\* A runner that runs the failed step again.
ChatNodeFails_retried ==
    /\ "chat" \in active
    /\ steps < recursion_limit
    /\ LET trimmed_messages == trimmer(messages, budget)
           tools == backend_tools \cup copilotkit.actions
       IN /\ view' = trimmed_messages
          /\ prompt' = assistant_instructions_template(trimmed_messages)
          /\ model_with_tools' = bind_tools(model_with_tools, tools)
    /\ active' = {"chat"}
    /\ error' = "ModelError"
    /\ UNCHANGED <<messages, copilotkit, last_node, decision, running, inflight,
                   completed, dispatched, budget, steps, sessions, ServerAndTools>>

\* ChatNode.__call__ when `await self.model_with_tools.ainvoke(prompt)` raises:
\* nothing catches the exception, the node returns no update and the graph has
\* no retry policy for it, so the invocation ends with the error; the
\* conditional edge is not evaluated.
ChatNodeFails ==
    /\ "chat" \in active
    /\ steps < recursion_limit
    /\ LET trimmed_messages == trimmer(messages, budget)
           tools == backend_tools \cup copilotkit.actions
       IN /\ view' = trimmed_messages
          /\ prompt' = assistant_instructions_template(trimmed_messages)
          /\ model_with_tools' = bind_tools(model_with_tools, tools)
    /\ active' = {}
    /\ error' = "ModelError"
    /\ UNCHANGED <<messages, copilotkit, last_node, decision, running, inflight,
                   completed, dispatched, budget, steps, sessions, ServerAndTools>>

NextFail ==
    \/ Next
    \/ ChatNodeFails

SpecFail == Init /\ [][NextFail]_vars

\* C22: a failed model call ends the invocation with the error: nothing is
\* scheduled or running afterwards (no retry, no routing, no dispatch), and
\* the failed step leaves messages and the routing decision as the last
\* completed step left them.
C22_ModelFailureAborts ==
    [][/\ error' = "ModelError" => (active' = {} /\ ~running')
       /\ (error # "ModelError" /\ error' = "ModelError")
              => (messages' = messages /\ decision' = decision)]_vars

C22_Witness ==
    /\ error = "ModelError"
    /\ active = {}
    /\ messages # <<>>
    /\ Last(messages).type = "tool"
    /\ last_node = "tools"

\* C23: what a completed invocation reports tells its cause: an invocation
\* that ended because a call names a caller-supplied descriptor does not
\* report what the routing reports for a plain answer (an assistant message
\* without tool calls) in the same conversation.
C23_DoneCausesDistinct ==
    (/\ active = {}
     /\ last_node = "chat"
     /\ error = None
     /\ messages # <<>>
     /\ HasCalls(Last(messages))
     /\ CallerOwned(Last(messages)))
        => decision # workflow_tools_condition(
                          State(Append(messages, AIMessage(<<>>, NoId))))

\* C24: the step of the workflow node leaves messages as they were and
\* schedules nothing: the invocation is over, and neither the chat node nor
\* the tool node runs again in it.
C24_HandOffIsTerminal ==
    [][("workflow" \in active)
          => (messages' = messages /\ active' = {} /\ ~running'
              /\ last_node' = "workflow")]_vars

C24_Witness ==
    /\ last_node = "workflow"
    /\ active = {}
    /\ decision = "workflow"
    /\ Len(messages) >= 2
    /\ HasTrigger(Last(messages))

\* C25: after a chat step exactly the routing's choice is scheduled: nothing
\* when it chose END, otherwise that one node; and while the tool node is
\* running its calls the invocation is not over.
C25_OneSuccessor ==
    /\ last_node = "chat" =>
          (/\ active = {decision} \ {END}
           /\ Cardinality(active) <= 1)
    /\ running => active = {"tools"}

C25_Witness ==
    /\ last_node = "chat"
    /\ decision = "tools"
    /\ running
    /\ active = {"tools"}
    /\ inflight # {}

\* The prompt is the system instructions followed by the view.
PromptIsInstructionsThenView ==
    /\ Len(prompt) = Len(view) + 1
    /\ prompt[1] = assistant_instructions
    /\ SubSeq(prompt, 2, Len(prompt)) = view

\* C26 as stated: the last message of the view is always a human or tool
\* message, and the prompt is the system instructions followed by the view.
C26_ViewEndsOnHumanOrTool ==
    Trimmed =>
        /\ view # <<>> => Last(view).type \in {"human", "tool"}
        /\ PromptIsInstructionsThenView

\* C26, amended: the view never ends with an assistant message: a view that
\* is not empty ends with a human or tool message or is the history's leading
\* system message alone; the prompt is the system instructions followed by
\* the view.
C26_ViewNeverEndsOnAssistant ==
    Trimmed =>
        /\ view # <<>> =>
              \/ Last(view).type \in {"human", "tool"}
              \/ (Len(view) = 1 /\ view[1].type = "system" /\ view[1] = messages[1])
        /\ PromptIsInstructionsThenView

C26_Witness ==
    /\ Trimmed
    /\ Len(messages) >= 3
    /\ Last(messages).type = "ai"
    /\ view # <<>>
    /\ Len(view) < Len(messages)
    /\ Last(view).type = "tool"
    /\ Len(prompt) = Len(view) + 1

\* -------------------------------------------------------- the distances tool
Distances == (0..MaxDistance) \cup {NoDistance}

\* float("inf"): above every distance.
inf == MaxDistance + 1

\* The sort key `x.get("distance_meters") or float("inf")`: None and 0 are
\* both falsy, so both give inf.
sort_key(x) ==
    IF x.distance_meters = NoDistance \/ x.distance_meters = 0
    THEN inf
    ELSE x.distance_meters

\* list.sort is stable: x goes after every element whose key is not larger.
RECURSIVE Insert(_, _)
Insert(sorted, x) ==
    IF sorted = <<>> THEN <<x>>
    ELSE IF sort_key(Head(sorted)) <= sort_key(x)
         THEN <<Head(sorted)>> \o Insert(Tail(sorted), x)
         ELSE <<x>> \o sorted

RECURSIVE sort(_)
sort(list) ==
    IF list = <<>> THEN <<>>
    ELSE Insert(sort(SubSeq(list, 1, Len(list) - 1)), Last(list))

\* The elements the route-matrix stream can deliver, one per destination.
Streams ==
    {[i \in 1..Len(ds) |-> [destination_index |-> i - 1, distance_meters |-> ds[i]]] :
        ds \in SeqsUpTo(Distances, MaxElems)}

InitDistances ==
    /\ messages = <<>>
    /\ copilotkit = [actions |-> {}]
    /\ active = {}
    /\ last_node = None
    /\ decision = None
    /\ view = <<>>
    /\ running = FALSE
    /\ inflight = {}
    /\ completed = <<>>
    /\ dispatched = <<>>
    /\ budget = max_history_tokens
    /\ steps = 0
    /\ error = None
    /\ model_with_tools = bind_tools({}, backend_tools)
    /\ sessions = NoSessions
    /\ prompt = <<>>
    /\ checkpointer = NoCheckpoints
    /\ requests = NoRequests
    /\ elements \in Streams
    /\ results = <<>>

\* The tool collects the streamed elements in arrival order, sorts them by
\* the key and returns them.
get_accurate_supermarket_distances ==
    /\ last_node = None
    /\ results' = sort(elements)
    /\ last_node' = "get_accurate_supermarket_distances"
    /\ UNCHANGED <<messages, copilotkit, active, decision, view, running, inflight,
                   completed, dispatched, budget, steps, error, model_with_tools,
                   sessions, prompt, checkpointer, requests, elements>>

NextDistances == get_accurate_supermarket_distances

SpecDistances == InitDistances /\ [][NextDistances]_vars

\* C27: the returned elements that carry a distance are in ascending order of
\* distance_meters, distance 0 included.
C27_AscendingDistance ==
    last_node = "get_accurate_supermarket_distances" =>
        \A i, j \in 1..Len(results) :
            (/\ i < j
             /\ results[i].distance_meters # NoDistance
             /\ results[j].distance_meters # NoDistance)
                => results[i].distance_meters <= results[j].distance_meters
====
